---- MODULE Spec2Model ----
(***************************************************************************)
(* A model of sheldon's lock module (src/lock/mod.rs): the lock            *)
(* orchestrator `config`, the defaults provider of `Shell`, and            *)
(* `LockedConfig::verify`.                                                  *)
(*                                                                         *)
(* An IndexMap is a sequence of entries in insertion order.  An Option is  *)
(* a sequence of length 0 (None) or 1 (Some).  A Result is a record with   *)
(* an `ok` flag and a `val`.  Plugin indexes are 0-based, as `enumerate`   *)
(* yields them.                                                            *)
(***************************************************************************)
EXTENDS Integers, Sequences, FiniteSets, TLC

VARIABLES
    ctx,            \* LockContext: the settings of the current run
    config,         \* the Config handed to `config`
    pc,             \* the driving thread: "start", "parallel", "done"
    templates,      \* `templates`: the effective template map
    inlines,        \* `inlines`: (index, LockedPlugin::Inline)
    map,            \* `map`: unique Source -> Vec<(index, plugin)>
    tasks,          \* one rayon task per entry of `map`
    installs,       \* calls of source::lock, per Source
    installOutcome, \* what source::lock returned, per Source
    lockOutcome,    \* what plugin::lock returned, per plugin index
    finished,       \* the tasks in the order they completed
    locked,         \* the LockedConfig `config` returns (None before)
    fs,             \* the paths that exist on disk
    verified,       \* the answers of the calls of verify since the last change
    errorsVec,      \* `errors`: the aggregate error list of the driving thread
    pluginsVec,     \* `plugins`: the final plugin list of the driving thread
    lockerCalls,    \* calls of plugin::lock, per Source: (plugin name, source handle)
    lazyTemplates,  \* the statics DEFAULT_TEMPLATES_BASH and _ZSH: None until forced
    history,        \* the configs of the lock runs completed before this one
    cleanTodo,      \* clean: the entries still to be processed
    warnings,       \* clean: the caller's `warnings`
    fsFailures,     \* the paths whose removal the file system refused
    disk0,          \* the disk as it was when clean was called
    lockFile        \* the content of the lock file (None before it is written)

vars == <<ctx, config, pc, templates, inlines, map, tasks, installs,
          installOutcome, lockOutcome, finished, locked, fs, verified,
          errorsVec, pluginsVec, lockerCalls, lazyTemplates, history,
          cleanTodo, warnings, fsFailures, disk0, lockFile>>

lockVars == <<config, pc, templates, inlines, map, tasks, installs,
              installOutcome, lockOutcome, finished,
              errorsVec, pluginsVec, lockerCalls, lazyTemplates>>

\* What a lock run and verify leave alone.
envVars == <<history, cleanTodo, warnings, fsFailures, disk0, lockFile>>

----------------------------------------------------------------------------
(* Bounds *)

MaxPlugins == 3
NumSources == 2
MaxUserTemplates == 2
MaxLockedPlugins == 2
MaxSettingChanges == 1
MaxVerifyCalls == 2

\* Lock runs that follow the first one in a process.
MaxRuns == 2

\* to_path and from_path calls followed.
MaxPersistOps == 3

Sources == 1..NumSources

----------------------------------------------------------------------------
(* Sequence helpers *)

Range(s) == {s[i] : i \in 1..Len(s)}

SeqMap(Op(_), s) == [i \in 1..Len(s) |-> Op(s[i])]

RECURSIVE Flatten(_)
Flatten(ss) == IF ss = <<>> THEN <<>> ELSE Head(ss) \o Flatten(Tail(ss))

RECURSIVE SeqsUpTo(_, _)
SeqsUpTo(S, n) ==
    IF n = 0 THEN {<<>>}
    ELSE LET shorter == SeqsUpTo(S, n - 1)
         IN  shorter \cup {Append(s, x) : s \in {t \in shorter : Len(t) = n - 1}, x \in S}

\* The sequences over S of length at most n with no element twice.
DistinctSeqs(S, n) ==
    {s \in SeqsUpTo(S, n) : \A i, j \in 1..Len(s) : i # j => s[i] # s[j]}

----------------------------------------------------------------------------
(* Templates and the defaults provider *)

Template(value, each) == [value |-> value, each |-> each]

Entry(name, template) == [name |-> name, template |-> template]

Keys(m) == [i \in 1..Len(m) |-> m[i].name]

\* Mutant: the insert of an existing key removes the old entry and appends.
IndexMapInsert_moves(m, name, template) ==
    Append(SelectSeq(m, LAMBDA e : e.name # name), Entry(name, template))

\* IndexMap::insert: an existing key keeps its position and takes the new
\* value, a new key is appended.
IndexMapInsert(m, name, template) ==
    IF \E i \in 1..Len(m) : m[i].name = name
    THEN [i \in 1..Len(m) |-> IF m[i].name = name THEN Entry(name, template) ELSE m[i]]
    ELSE Append(m, Entry(name, template))

default_templates(shell) ==
    IF shell = "Bash"
    THEN << Entry("PATH", Template("export PATH=\"{{ dir }}:$PATH\"", FALSE)),
            Entry("source", Template("source \"{{ file }}\"", TRUE)) >>
    ELSE << Entry("PATH", Template("export PATH=\"{{ dir }}:$PATH\"", FALSE)),
            Entry("path", Template("path=( \"{{ dir }}\" $path )", FALSE)),
            Entry("fpath", Template("fpath=( \"{{ dir }}\" $fpath )", FALSE)),
            Entry("source", Template("source \"{{ file }}\"", TRUE)) >>

\* Lazy::force of the shell's static: the table built on first use, the
\* stored one afterwards.
Forced(shell) ==
    IF lazyTemplates[shell] = <<>> THEN default_templates(shell) ELSE lazyTemplates[shell][1]

\* Mutant: the user templates are inserted into the static itself, not into
\* a clone of it.
StoredDefaults_merged(shell, merged) == <<merged>>

\* What the shell's static holds after `shell.default_templates().clone()`
\* and the inserts into the clone: the table as forced.
StoredDefaults(shell, merged) == <<Forced(shell)>>

\* The `templates` block of `config`: the defaults, then every user template
\* inserted in declaration order.
RECURSIVE InsertAll(_, _)
InsertAll(m, user) ==
    IF user = <<>> THEN m
    ELSE InsertAll(IndexMapInsert(m, Head(user).name, Head(user).template), Tail(user))

\* Mutant: the defaults of Bash whatever the shell.
MergeTemplates_bash(shell, user) == InsertAll(Forced("Bash"), user)

MergeTemplates(shell, user) == InsertAll(Forced(shell), user)

----------------------------------------------------------------------------
(* Settings and paths *)

SettingsFields == {"version", "home", "config_file", "lock_file",
                   "clone_dir", "download_dir", "data_dir", "config_dir"}

\* LockContext::testing(root).settings
TestingSettings(root) ==
    [version |-> "release", home |-> "/",
     config_file |-> root \o "/config.toml", lock_file |-> root \o "/config.lock",
     clone_dir |-> root \o "/repos", download_dir |-> root \o "/downloads",
     data_dir |-> root, config_dir |-> root]

Path(s, rel) == [source |-> s, rel |-> rel]

SourceDir(s) == Path(s, "")

----------------------------------------------------------------------------
(* Plugins, sources, results *)

ExternalPlugin(name, source) == [kind |-> "external", name |-> name, source |-> source]

InlinePlugin(name) == [kind |-> "inline", name |-> name]

Ok(val) == [ok |-> TRUE, val |-> val]

Err(val) == [ok |-> FALSE, val |-> val]

\* The handle source::lock returns for an installed source.
LockedSource(source) == [dir |-> SourceDir(source)]

\* The LockedExternalPlugin plugin::lock returns for a plugin of an installed
\* source: the source's directory, no plugin subdirectory, one matched file.
LockedExternal(source, plugin) ==
    [kind |-> "external", name |-> plugin.name, source_dir |-> source.dir,
     plugin_dir |-> <<>>, files |-> <<Path(plugin.source, "file")>>]

LockedInline(plugin) == [kind |-> "inline", name |-> plugin.name]

\* .with_context(s!("failed to install source `{}`", source_name))
SourceError(source) == [context |-> "failed to install source", of |-> source]

\* .with_context(s!("failed to install plugin `{}`", name))
PluginError(name) == [context |-> "failed to install plugin", of |-> name]

Indexed(index, val) == [index |-> index, val |-> val]

\* plugins.into_iter().enumerate()
Enumerate(plugins) == [i \in 1..Len(plugins) |-> Indexed(i - 1, plugins[i])]

\* partition_map: the Left side, in order
Externals(plugins) ==
    SelectSeq(Enumerate(plugins), LAMBDA e : e.val.kind = "external")

\* partition_map: the Right side, in order, each already a LockedPlugin::Inline
Inlines(plugins) ==
    SeqMap(LAMBDA e : Indexed(e.index, LockedInline(e.val)),
           SelectSeq(Enumerate(plugins), LAMBDA e : e.val.kind = "inline"))

\* Mutant: every plugin opens an entry of its own.
MapPush_nodedup(m, e) == Append(m, [source |-> e.val.source, plugins |-> <<e>>])

\* map.entry(source).or_insert_with(Vec::new).push((index, plugin))
MapPush(m, e) ==
    IF \E g \in 1..Len(m) : m[g].source = e.val.source
    THEN [g \in 1..Len(m) |->
            IF m[g].source = e.val.source
            THEN [m[g] EXCEPT !.plugins = Append(@, e)]
            ELSE m[g]]
    ELSE Append(m, [source |-> e.val.source, plugins |-> <<e>>])

RECURSIVE GroupBySource(_, _)
GroupBySource(m, externals) ==
    IF externals = <<>> THEN m
    ELSE GroupBySource(MapPush(m, Head(externals)), Tail(externals))

\* sorted_by_key(|(index, _)| *index): a stable sort
RECURSIVE InsertSorted(_, _)
InsertSorted(sorted, e) ==
    IF sorted = <<>> THEN <<e>>
    ELSE IF e.index < Head(sorted).index
         THEN <<e>> \o sorted
         ELSE <<Head(sorted)>> \o InsertSorted(Tail(sorted), e)

\* Mutant: the sort is left out.
SortedByKey_unsorted(s) == s

RECURSIVE SortedByKey(_)
SortedByKey(s) ==
    IF s = <<>> THEN <<>>
    ELSE InsertSorted(SortedByKey(SubSeq(s, 1, Len(s) - 1)), s[Len(s)])

DropIndex(s) == SeqMap(LAMBDA e : e.val, s)

----------------------------------------------------------------------------
(* The lock orchestrator: `config` *)

Shells == {"Bash", "Zsh"}

None == <<>>

Some(x) == <<x>>

\* Mutant: the settings recorded are not those of the context.
LockedConfig_stale(settings, tmpls, errors, plugins) ==
    [settings |-> TestingSettings(""), templates |-> tmpls, errors |-> errors,
     plugins |-> plugins]

LockedConfig(settings, tmpls, errors, plugins) ==
    [settings |-> settings, templates |-> tmpls, errors |-> errors, plugins |-> plugins]

IdleTask == [state |-> "idle", source |-> None, next |-> 1, locked |-> <<>>, result |-> None]

\* Lines 41-85: destructure the config, merge the templates, partition and
\* group the plugins; with no source to install, return the inline plugins.
Start ==
    /\ pc = "start"
    /\ LET tmpls == MergeTemplates(config.shell, config.templates)
           inl == Inlines(config.plugins)
           m == GroupBySource(<<>>, Externals(config.plugins))
           count == Len(m)
       IN  /\ templates' = tmpls
           /\ lazyTemplates' = [lazyTemplates EXCEPT ![config.shell] =
                                   StoredDefaults(config.shell, tmpls)]
           /\ inlines' = inl
           /\ map' = m
           /\ tasks' = [g \in 1..count |-> IdleTask]
           /\ errorsVec' = <<>>
           /\ IF count = 0
              THEN /\ pc' = "done"
                   /\ pluginsVec' = DropIndex(inl)
                   /\ locked' = Some(Ok(LockedConfig(ctx, tmpls, errorsVec', pluginsVec')))
              ELSE /\ pc' = "parallel"
                   /\ pluginsVec' = pluginsVec
                   /\ locked' = locked
    /\ UNCHANGED <<ctx, config, installs, installOutcome, lockOutcome, finished, fs, verified,
                   lockerCalls, envVars>>

\* Mutant: a task pushes its install error to the shared list itself.
Install_shared(g) ==
    /\ pc = "parallel"
    /\ g \in 1..Len(tasks)
    /\ tasks[g].state = "idle"
    /\ LET source == map[g].source
       IN  /\ installs' = [installs EXCEPT ![source] = @ + 1]
           /\ \E ok \in BOOLEAN :
                /\ installOutcome' = [installOutcome EXCEPT ![source] = IF ok THEN "ok" ELSE "failed"]
                /\ IF ok
                   THEN /\ tasks' = [tasks EXCEPT ![g].state = "installed",
                                                  ![g].source = Some(LockedSource(source))]
                        /\ finished' = finished
                        /\ errorsVec' = errorsVec
                   ELSE /\ tasks' = [tasks EXCEPT ![g].state = "done",
                                                  ![g].result = Some(Err(SourceError(source)))]
                        /\ finished' = Append(finished, g)
                        /\ errorsVec' = Append(errorsVec, SourceError(source))
    /\ UNCHANGED <<ctx, config, pc, templates, inlines, map, lockOutcome, locked, fs, verified,
                   pluginsVec, lockerCalls, lazyTemplates, envVars>>

\* Mutant: the error of source::lock is recorded and the plugin loop runs
\* all the same.
Install_proceeds(g) ==
    /\ pc = "parallel"
    /\ g \in 1..Len(tasks)
    /\ tasks[g].state = "idle"
    /\ LET source == map[g].source
       IN  /\ installs' = [installs EXCEPT ![source] = @ + 1]
           /\ \E ok \in BOOLEAN :
                /\ installOutcome' = [installOutcome EXCEPT ![source] = IF ok THEN "ok" ELSE "failed"]
                /\ tasks' = [tasks EXCEPT ![g].state = "installed",
                                          ![g].source = Some(LockedSource(source))]
                /\ finished' = finished
    /\ UNCHANGED <<ctx, config, pc, templates, inlines, map, lockOutcome, locked, fs, verified,
                   errorsVec, pluginsVec, lockerCalls, lazyTemplates, envVars>>

\* Lines 90-93 of the task of group g: source::lock succeeds or fails; a
\* failure is the task's result.
Install(g) ==
    /\ pc = "parallel"
    /\ g \in 1..Len(tasks)
    /\ tasks[g].state = "idle"
    /\ LET source == map[g].source
       IN  /\ installs' = [installs EXCEPT ![source] = @ + 1]
           /\ \E ok \in BOOLEAN :
                /\ installOutcome' = [installOutcome EXCEPT ![source] = IF ok THEN "ok" ELSE "failed"]
                /\ IF ok
                   THEN /\ tasks' = [tasks EXCEPT ![g].state = "installed",
                                                  ![g].source = Some(LockedSource(source))]
                        /\ finished' = finished
                   ELSE /\ tasks' = [tasks EXCEPT ![g].state = "done",
                                                  ![g].result = Some(Err(SourceError(source)))]
                        /\ finished' = Append(finished, g)
    /\ UNCHANGED <<ctx, config, pc, templates, inlines, map, lockOutcome, locked, fs, verified,
                   errorsVec, pluginsVec, lockerCalls, lazyTemplates, envVars>>

\* Mutant: the task returns at the first plugin that fails, as with `?`.
LockPlugin_bail(g) ==
    /\ pc = "parallel"
    /\ g \in 1..Len(tasks)
    /\ tasks[g].state = "installed"
    /\ LET t == tasks[g]
           e == map[g].plugins[t.next]
           last == t.next = Len(map[g].plugins)
       IN  \E ok \in BOOLEAN :
             LET plugin == IF ok THEN Ok(LockedExternal(t.source[1], e.val))
                                 ELSE Err(PluginError(e.val.name))
                 lockedVec == Append(t.locked, Indexed(e.index, plugin))
             IN  /\ lockOutcome' = [lockOutcome EXCEPT ![e.index] = IF ok THEN "ok" ELSE "failed"]
                 /\ lockerCalls' = [lockerCalls EXCEPT ![map[g].source] =
                        Append(@, [name |-> e.val.name, source |-> t.source[1]])]
                 /\ tasks' = [tasks EXCEPT ![g] =
                        [t EXCEPT !.locked = lockedVec,
                                  !.next = @ + 1,
                                  !.state = IF last \/ ~ok THEN "done" ELSE "installed",
                                  !.result = IF last \/ ~ok THEN Some(Ok(lockedVec)) ELSE None]]
                 /\ finished' = IF last \/ ~ok THEN Append(finished, g) ELSE finished
    /\ UNCHANGED <<ctx, config, pc, templates, inlines, map, installs, installOutcome,
                   locked, fs, verified, errorsVec, pluginsVec, lazyTemplates, envVars>>

\* Lines 96-103 of the task of group g: one iteration of the loop over the
\* group's plugins; after the last one the task returns Ok(locked).
LockPlugin(g) ==
    /\ pc = "parallel"
    /\ g \in 1..Len(tasks)
    /\ tasks[g].state = "installed"
    /\ LET t == tasks[g]
           e == map[g].plugins[t.next]
           last == t.next = Len(map[g].plugins)
       IN  \E ok \in BOOLEAN :
             LET plugin == IF ok THEN Ok(LockedExternal(t.source[1], e.val))
                                 ELSE Err(PluginError(e.val.name))
                 lockedVec == Append(t.locked, Indexed(e.index, plugin))
             IN  /\ lockOutcome' = [lockOutcome EXCEPT ![e.index] = IF ok THEN "ok" ELSE "failed"]
                 /\ lockerCalls' = [lockerCalls EXCEPT ![map[g].source] =
                        Append(@, [name |-> e.val.name, source |-> t.source[1]])]
                 /\ tasks' = [tasks EXCEPT ![g] =
                        [t EXCEPT !.locked = lockedVec,
                                  !.next = @ + 1,
                                  !.state = IF last THEN "done" ELSE "installed",
                                  !.result = IF last THEN Some(Ok(lockedVec)) ELSE None]]
                 /\ finished' = IF last THEN Append(finished, g) ELSE finished
    /\ UNCHANGED <<ctx, config, pc, templates, inlines, map, installs, installOutcome,
                   locked, fs, verified, errorsVec, pluginsVec, lazyTemplates, envVars>>

\* Mutant: the results are collected in the order the tasks completed in.
Collect_byCompletion(ts) == [k \in 1..Len(ts) |-> ts[finished[k]].result[1]]

\* .collect::<Vec<_>>() of the parallel iterator: the results in the order of
\* `map`, whatever the order the tasks completed in.
Collect(ts) == [g \in 1..Len(ts) |-> ts[g].result[1]]

\* Mutant: an install error is pushed by both filter_map passes.
SourceErrors_twice(results) ==
    LET errs == SeqMap(LAMBDA r : r.val, SelectSeq(results, LAMBDA r : ~r.ok))
    IN  errs \o errs

\* Lines 111-117: the first filter_map pushes the install errors.
SourceErrors(results) == SeqMap(LAMBDA r : r.val, SelectSeq(results, LAMBDA r : ~r.ok))

\* Mutant: one failed install empties the whole collection, as collecting
\* into a Result would.
Flattened_abort(results) ==
    IF \E g \in 1..Len(results) : ~results[g].ok THEN <<>>
    ELSE Flatten(SeqMap(LAMBDA r : r.val, results))

\* Lines 111-126: the installed groups' sub lists, flattened.
Flattened(results) == Flatten(SeqMap(LAMBDA r : r.val, SelectSeq(results, LAMBDA r : r.ok)))

\* Mutant: the plugin errors are filtered out without being recorded.
PluginErrors_dropped(flat) == <<>>

\* Lines 128-134: the second filter_map pushes the plugin errors and keeps
\* the locked plugins, each with its index.
PluginErrors(flat) == SeqMap(LAMBDA e : e.val.val, SelectSeq(flat, LAMBDA e : ~e.val.ok))

LockedExternals(flat) ==
    SeqMap(LAMBDA e : Indexed(e.index, e.val.val), SelectSeq(flat, LAMBDA e : e.val.ok))

\* Lines 135-138: chain the inlines, sort by index, drop the index.
FinalPlugins(flat, inl) == DropIndex(SortedByKey(LockedExternals(flat) \o inl))

\* Mutant: the first install error is propagated as the error of the run.
Join_propagate ==
    /\ pc = "parallel"
    /\ \A g \in 1..Len(tasks) : tasks[g].state = "done"
    /\ LET results == Collect(tasks)
           flat == Flattened(results)
       IN  /\ errorsVec' = errorsVec \o SourceErrors(results) \o PluginErrors(flat)
           /\ pluginsVec' = FinalPlugins(flat, inlines)
           /\ locked' = IF SourceErrors(results) # <<>>
                         THEN Some(Err(SourceErrors(results)[1]))
                         ELSE Some(Ok(LockedConfig(ctx, templates, errorsVec', pluginsVec')))
    /\ pc' = "done"
    /\ UNCHANGED <<ctx, config, templates, inlines, map, tasks, installs, installOutcome,
                   lockOutcome, finished, fs, verified, lockerCalls, lazyTemplates, envVars>>

\* Lines 109-146 on the driving thread, once every task has returned.
Join ==
    /\ pc = "parallel"
    /\ \A g \in 1..Len(tasks) : tasks[g].state = "done"
    /\ LET results == Collect(tasks)
           flat == Flattened(results)
       IN  /\ errorsVec' = errorsVec \o SourceErrors(results) \o PluginErrors(flat)
           /\ pluginsVec' = FinalPlugins(flat, inlines)
    /\ locked' = Some(Ok(LockedConfig(ctx, templates, errorsVec', pluginsVec')))
    /\ pc' = "done"
    /\ UNCHANGED <<ctx, config, templates, inlines, map, tasks, installs, installOutcome,
                   lockOutcome, finished, fs, verified, lockerCalls, lazyTemplates, envVars>>

----------------------------------------------------------------------------
(* The lock runs checked: every plugin list up to MaxPlugins over the
   sources, both shells, with and without a user template. *)

\* Plugin i of a list is named i; kind 0 is an inline plugin, kind s > 0 an
\* external plugin of source s.
MakePlugins(kinds) ==
    [i \in 1..Len(kinds) |-> IF kinds[i] = 0 THEN InlinePlugin(i) ELSE ExternalPlugin(i, kinds[i])]

PluginLists == {MakePlugins(k) : k \in SeqsUpTo({0} \cup Sources, MaxPlugins)}

UserTemplate(name, each) == Entry(name, Template("user " \o name, each))

Roots == {"/tmp/a", "/tmp/b"}

AllPaths == {Path(s, rel) : s \in Sources, rel \in {"", "sub", "file", "sub/file"}}

\* No lock run before this one, nothing cleaned, no lock file written.
InitRest ==
    /\ errorsVec = <<>>
    /\ pluginsVec = <<>>
    /\ lockerCalls = [s \in Sources |-> <<>>]
    /\ lazyTemplates = [sh \in Shells |-> None]
    /\ history = <<>>
    /\ cleanTodo = {}
    /\ warnings = <<>>
    /\ fsFailures = {}
    /\ disk0 = {}
    /\ lockFile = None

InitLockState ==
    /\ pc = "start"
    /\ templates = <<>>
    /\ inlines = <<>>
    /\ map = <<>>
    /\ tasks = <<>>
    /\ installs = [s \in Sources |-> 0]
    /\ installOutcome = [s \in Sources |-> "none"]
    /\ lockOutcome = [i \in 0..(Len(config.plugins) - 1) |-> "none"]
    /\ finished = <<>>
    /\ locked = None
    /\ fs = AllPaths
    /\ verified = <<>>
    /\ InitRest

Init ==
    /\ ctx \in {TestingSettings(r) : r \in Roots}
    /\ config \in [shell : Shells,
                   templates : {<<>>, <<UserTemplate("source", FALSE)>>},
                   plugins : PluginLists]
    /\ InitLockState

Next ==
    \/ Start
    \/ \E g \in 1..NumSources : Install(g)
    \/ \E g \in 1..NumSources : LockPlugin(g)
    \/ Join

Spec == Init /\ [][Next]_vars

----------------------------------------------------------------------------
(* LockedConfig::verify *)

\* Path::exists
exists(path, disk) == path \in disk

\* Mutant: the plugin subdirectory is ignored.
dir_source(plugin) == plugin.source_dir

\* LockedExternalPlugin::dir: self.plugin_dir.as_ref().unwrap_or(&self.source_dir)
dir(plugin) == IF plugin.plugin_dir # None THEN plugin.plugin_dir[1] ELSE plugin.source_dir

\* Lines 231-235: the loop over the files, left at the first missing one.
RECURSIVE FilesExist(_, _)
FilesExist(files, disk) ==
    IF files = <<>> THEN TRUE
    ELSE IF ~exists(Head(files), disk) THEN FALSE
    ELSE FilesExist(Tail(files), disk)

\* Lines 225-240: the loop over the plugins, left at the first failed check.
RECURSIVE PluginsExist(_, _)
PluginsExist(plugins, disk) ==
    IF plugins = <<>> THEN TRUE
    ELSE IF Head(plugins).kind = "external"
         THEN IF ~exists(dir(Head(plugins)), disk) THEN FALSE
              ELSE IF ~FilesExist(Head(plugins).files, disk) THEN FALSE
              ELSE PluginsExist(Tail(plugins), disk)
         ELSE PluginsExist(Tail(plugins), disk)

verify(self, settings, disk) ==
    IF self.settings # settings THEN FALSE
    ELSE PluginsExist(self.plugins, disk)

\* Mutant: verify refreshes the settings recorded in the lock.
Verify_refresh ==
    /\ pc \in {"done", "loaded"}
    /\ Len(verified) < MaxVerifyCalls
    /\ verified' = Append(verified, verify(locked[1].val, ctx, fs))
    /\ locked' = Some(Ok([locked[1].val EXCEPT !.settings = ctx]))
    /\ UNCHANGED <<ctx, lockVars, fs, envVars>>

\* A call of verify on the LockedConfig at hand; `verified` keeps the answers
\* of the calls made since the disk or the settings last changed.
Verify ==
    /\ pc \in {"done", "loaded"}
    /\ Len(verified) < MaxVerifyCalls
    /\ verified' = Append(verified, verify(locked[1].val, ctx, fs))
    /\ UNCHANGED <<ctx, lockVars, locked, fs, envVars>>

----------------------------------------------------------------------------
(* The environment of verify: the disk and the settings change between a
   lock and a later run. *)

\* Path `inner` is `outer` or lies below it.
Below(inner, outer) ==
    /\ inner.source = outer.source
    /\ \/ outer.rel = ""
       \/ inner.rel = outer.rel
       \/ outer.rel = "sub" /\ inner.rel = "sub/file"

\* A file, or a directory with all it holds, is deleted.
DeletePath(path) ==
    /\ pc \in {"done", "loaded"}
    /\ path \in fs
    /\ fs' = {q \in fs : ~Below(q, path)}
    /\ verified' = <<>>
    /\ UNCHANGED <<ctx, lockVars, locked, envVars>>

\* The current run's settings differ in one more field from those of the lock.
ChangeSetting(f) ==
    /\ pc \in {"done", "loaded"}
    /\ ctx[f] = locked[1].val.settings[f]
    /\ Cardinality({h \in SettingsFields : ctx[h] # locked[1].val.settings[h]}) < MaxSettingChanges
    /\ ctx' = [ctx EXCEPT ![f] = @ \o ".changed"]
    /\ verified' = <<>>
    /\ UNCHANGED <<lockVars, locked, fs, envVars>>

\* The locked plugins of a lock file over one source: an inline plugin, or an
\* external one with or without a plugin subdirectory and with no, one or
\* two matched files.
LockedPluginChoices ==
    {[kind |-> "inline", name |-> 1]}
    \cup {[kind |-> "external", name |-> 1, source_dir |-> SourceDir(1),
           plugin_dir |-> pd, files |-> fl] :
            pd \in {None, Some(Path(1, "sub"))},
            fl \in {<<>>, <<Path(1, "file")>>, <<Path(1, "file"), Path(1, "sub/file")>>}}

VerifyPaths == {p \in AllPaths : p.source = 1}

\* A LockedConfig read back from a lock file (from_path), with everything it
\* names on disk and the settings it was made with.
InitVerify ==
    /\ ctx \in {TestingSettings(r) : r \in Roots}
    /\ config = [shell |-> "Zsh", templates |-> <<>>, plugins |-> <<>>]
    /\ pc = "loaded"
    /\ templates = <<>>
    /\ inlines = <<>>
    /\ map = <<>>
    /\ tasks = <<>>
    /\ installs = [s \in Sources |-> 0]
    /\ installOutcome = [s \in Sources |-> "none"]
    /\ lockOutcome = <<>>
    /\ finished = <<>>
    /\ \E plugins \in SeqsUpTo(LockedPluginChoices, MaxLockedPlugins) :
         locked = Some(Ok(LockedConfig(ctx, default_templates("Zsh"), <<>>, plugins)))
    /\ fs = VerifyPaths
    /\ verified = <<>>
    /\ InitRest

\* The user templates checked: up to MaxUserTemplates templates of distinct
\* names, two of them names of defaults, applied once or per file.
UserTemplateLists ==
    {s \in SeqsUpTo({UserTemplate(n, e) : n \in {"PATH", "source", "custom", "extra"},
                                          e \in BOOLEAN}, MaxUserTemplates) :
        \A i, j \in 1..Len(s) : i # j => s[i].name # s[j].name}

InitTemplates ==
    /\ ctx \in {TestingSettings(r) : r \in Roots}
    /\ config \in [shell : Shells,
                   templates : UserTemplateLists,
                   plugins : {MakePlugins(<<>>), MakePlugins(<<1>>)}]
    /\ InitLockState

SpecTemplates == InitTemplates /\ [][Next]_vars

NextVerify ==
    \/ Verify
    \/ \E path \in VerifyPaths : DeletePath(path)
    \/ \E f \in SettingsFields : ChangeSetting(f)

SpecVerify == InitVerify /\ [][NextVerify]_vars

----------------------------------------------------------------------------
(* What the claims speak of *)

Done == pc = "done"

Returned == locked[1].val

Out == Returned.plugins

Errors == Returned.errors

Input == config.plugins

IsExternal(i) == Input[i].kind = "external"

\* Plugin i of the input (1-based) is in the output.
Present(i) == \E j \in 1..Len(Out) : Out[j].name = Input[i].name /\ Out[j].kind = Input[i].kind

\* The position in the input of the plugin at position j of the output.
InputPos(j) == CHOOSE i \in 1..Len(Input) : Input[i].name = Out[j].name

Count(s, x) == Cardinality({j \in 1..Len(s) : s[j] = x})

InstallFailed(i) == IsExternal(i) /\ installOutcome[Input[i].source] = "failed"

Installed(i) == IsExternal(i) /\ installOutcome[Input[i].source] = "ok"

LockFailed(i) == IsExternal(i) /\ lockOutcome[i - 1] = "failed"

LockSucceeded(i) == IsExternal(i) /\ lockOutcome[i - 1] = "ok"

DeclaredSources == {Input[i].source : i \in {k \in 1..Len(Input) : IsExternal(k)}}

PluginsOf(s) == {i \in 1..Len(Input) : IsExternal(i) /\ Input[i].source = s}

\* The input plugins that are locked, in declaration order.
\* (plugin i of a list is named i, so its 0-based index is its name less one)
Survivors == SelectSeq(Input, LAMBDA p : p.kind = "inline" \/ lockOutcome[p.name - 1] = "ok")

----------------------------------------------------------------------------
(* C1: when lock has returned, the output plugins are in the relative order
   of the input declaration, whatever the order the source tasks completed
   in: their input positions increase strictly along the output, and the
   output names are those of the locked input plugins in declaration
   order. *)
C1_OutputInInputOrder ==
    Done =>
        /\ \A j, k \in 1..Len(Out) : j < k => InputPos(j) < InputPos(k)
        /\ [j \in 1..Len(Out) |-> Out[j].name] = [j \in 1..Len(Survivors) |-> Survivors[j].name]

\* A later source group completed before an earlier one, and the output
\* holds an inline plugin and plugins of both groups.
C1_Witness ==
    /\ Done
    /\ Len(finished) = 2 /\ finished[1] = 2 /\ finished[2] = 1
    /\ \E i \in 1..Len(Input) : ~IsExternal(i)
    /\ \A s \in Sources : \E i \in PluginsOf(s) : Present(i)

(* C2: source::lock is called at most once per Source at any time, and when
   lock has returned it was called exactly once for every Source an external
   plugin declares and never for another. *)
C2_InstallOncePerSource ==
    /\ \A s \in Sources : installs[s] <= 1
    /\ Done => \A s \in Sources : installs[s] = (IF s \in DeclaredSources THEN 1 ELSE 0)

\* Lock has returned for a config where two plugins share a source and an
\* inline plugin is declared too.
C2_Witness ==
    /\ Done
    /\ \E s \in Sources : Cardinality(PluginsOf(s)) >= 2 /\ installs[s] = 1
    /\ \E i \in 1..Len(Input) : ~IsExternal(i)

(* C3: when lock has returned, the output is no longer than the input, a
   plugin is absent iff its source failed to install or its own locking
   failed, and every absent plugin has the error of its source or its own
   in errors. *)
C3_AbsentIffFailed ==
    Done =>
        /\ Len(Out) <= Len(Input)
        /\ \A i \in 1..Len(Input) :
            /\ ~Present(i) <=> (InstallFailed(i) \/ LockFailed(i))
            /\ ~Present(i) =>
                  \/ InstallFailed(i) /\ Count(Errors, SourceError(Input[i].source)) > 0
                  \/ LockFailed(i) /\ Count(Errors, PluginError(Input[i].name)) > 0

\* One plugin absent for its source, one absent for its own locking, one present.
C3_Witness ==
    /\ Done
    /\ \E i, j, k \in 1..Len(Input) :
        /\ InstallFailed(i) /\ ~Present(i)
        /\ LockFailed(j) /\ ~Present(j)
        /\ Present(k)

(* C4: lock never fails as a whole: nothing is returned before the join, and
   what lock returns is Ok(LockedConfig) whatever failed, every failure of
   an install or of a plugin's locking being an entry of errors; when the
   config has plugins and every one of them fails, plugins is empty and
   errors is not. *)
C4_NeverFails ==
    /\ ~Done => locked = None
    /\ Done =>
        /\ Len(locked) = 1 /\ locked[1].ok
        /\ \A i \in 1..Len(Input) :
              /\ InstallFailed(i) => Count(Errors, SourceError(Input[i].source)) > 0
              /\ LockFailed(i) => Count(Errors, PluginError(Input[i].name)) > 0
        /\ (Len(Input) > 0 /\ \A i \in 1..Len(Input) : InstallFailed(i) \/ LockFailed(i))
              => Out = <<>> /\ Errors # <<>>

\* Every plugin failed, one for its source and the others for their own locking.
C4_Witness ==
    /\ Done
    /\ Len(Input) = MaxPlugins
    /\ \E i, j \in 1..Len(Input) : InstallFailed(i) /\ LockFailed(j)
    /\ \A i \in 1..Len(Input) : InstallFailed(i) \/ LockFailed(i)

(* C5: when lock has returned and the install of a source failed, errors
   holds exactly one error for that source, none of its plugins is in the
   output, and every plugin of an installed source was attempted and is in
   the output iff its own locking succeeded; with one plugin in all, errors
   has exactly that one entry and plugins is empty. *)
C5_SourceFailureIsolated ==
    Done =>
        \A s \in DeclaredSources :
            installOutcome[s] = "failed" =>
                /\ Count(Errors, SourceError(s)) = 1
                /\ \A i \in PluginsOf(s) : ~Present(i) /\ lockOutcome[i - 1] = "none"
                /\ \A i \in 1..Len(Input) :
                      Installed(i) => /\ lockOutcome[i - 1] # "none"
                                      /\ Present(i) <=> LockSucceeded(i)
                /\ Len(Input) = 1 => Out = <<>> /\ Len(Errors) = 1
                /\ (\A i \in 1..Len(Input) : Installed(i) => LockSucceeded(i))
                      => Len(Errors) = Cardinality({r \in DeclaredSources : installOutcome[r] = "failed"})

\* A source with two plugins failed to install and the plugin of the other
\* source is in the output.
C5_Witness ==
    /\ Done
    /\ \E s \in DeclaredSources :
        /\ installOutcome[s] = "failed"
        /\ Cardinality(PluginsOf(s)) >= 2
        /\ \E i \in 1..Len(Input) : Installed(i) /\ Present(i)
    /\ Len(Errors) = 1

(* C6: when lock has returned, every plugin of an installed source was
   attempted; one whose locking failed is absent and has exactly one error,
   one whose locking succeeded is in the output. *)
C6_PluginFailureIsolated ==
    Done =>
        \A i \in 1..Len(Input) :
            Installed(i) =>
                /\ lockOutcome[i - 1] # "none"
                /\ LockFailed(i) => ~Present(i) /\ Count(Errors, PluginError(Input[i].name)) = 1
                /\ LockSucceeded(i) => Present(i) /\ Count(Errors, PluginError(Input[i].name)) = 0

\* In one source group the first plugin failed and a later one is locked.
C6_Witness ==
    /\ Done
    /\ \E i, j \in 1..Len(Input) :
        /\ i < j /\ IsExternal(i) /\ IsExternal(j) /\ Input[i].source = Input[j].source
        /\ LockFailed(i) /\ LockSucceeded(j) /\ Present(j) /\ ~Present(i)

----------------------------------------------------------------------------
(* What the aggregation claims speak of *)

AllTasksDone == \A g \in 1..Len(tasks) : tasks[g].state = "done"

FailedSources == {s \in DeclaredSources : installOutcome[s] = "failed"}

\* The plugins whose own locking failed, on an installed source.
FailedPlugins == {i \in 1..Len(Input) : Installed(i) /\ LockFailed(i)}

IsSourceError(e) == e.context = "failed to install source"

\* The source of the group an error comes from.
SourceOf(e) == IF IsSourceError(e) THEN e.of ELSE Input[e.of].source

\* The place of a source group among the groups: that of the first plugin
\* declaring the source.
FirstDecl(s) == CHOOSE i \in PluginsOf(s) : \A k \in PluginsOf(s) : i <= k

\* The k-th plugin of a source, in declaration order.
NthPlugin(s, k) ==
    CHOOSE i \in PluginsOf(s) : Cardinality({j \in PluginsOf(s) : j < i}) = k - 1

(* C15: a step that changes the aggregate error list or the final plugin
   list is taken when no source task is still running (every task has
   returned, or none was ever started), and it is the step that returns. *)
C15_AggregatesAfterJoin ==
    [][(errorsVec' # errorsVec \/ pluginsVec' # pluginsVec) => AllTasksDone /\ pc' = "done"]_vars

\* Lock has returned with an error and a plugin, after two source tasks ran,
\* one of which failed.
C15_Witness ==
    /\ Done
    /\ Len(finished) = 2
    /\ errorsVec # <<>> /\ pluginsVec # <<>>
    /\ FailedSources # {}

(* C16: when lock has returned, errors holds exactly one entry for every
   source whose install failed and exactly one for every plugin whose locking
   failed on an installed source, and nothing else; every input plugin is in
   the output at most once. *)
C16_NoLostOrDuplicatedReports ==
    Done =>
        /\ \A s \in FailedSources : Count(Errors, SourceError(s)) = 1
        /\ \A i \in FailedPlugins : Count(Errors, PluginError(Input[i].name)) = 1
        /\ Range(Errors) = {SourceError(s) : s \in FailedSources}
                           \cup {PluginError(Input[i].name) : i \in FailedPlugins}
        /\ Len(Errors) = Cardinality(FailedSources) + Cardinality(FailedPlugins)
        /\ \A i \in 1..Len(Input) :
              Cardinality({j \in 1..Len(Out) : Out[j].name = Input[i].name}) <= 1

\* A source with two plugins failed to install (one error, not two), a plugin
\* of the other source failed to lock.
C16_Witness ==
    /\ Done
    /\ \E s \in FailedSources : Cardinality(PluginsOf(s)) = 2
    /\ FailedPlugins # {}
    /\ Len(Errors) = 2

\* C17 as the claim states it: every error of an earlier source group
\* precedes every error of a later source group, whichever kind each is.
C17_ErrorsInGroupOrder_AsStated ==
    Done =>
        \A a, b \in 1..Len(Errors) :
            FirstDecl(SourceOf(Errors[a])) < FirstDecl(SourceOf(Errors[b])) => a < b

(* C17: the errors are built in two passes over the source-task outcomes,
   each in source-group order: first the install error of every failed
   group, then the lock errors of the failing plugins of the installed
   groups, in group order and in declaration order within a group.  So every
   install error precedes every plugin error, and among errors of the same
   kind every error of an earlier source group precedes every error of a
   later one. *)
C17_ErrorsInGroupOrder ==
    Done =>
        \A a, b \in 1..Len(Errors) :
            /\ IsSourceError(Errors[a]) /\ ~IsSourceError(Errors[b]) => a < b
            /\ (/\ IsSourceError(Errors[a]) = IsSourceError(Errors[b])
                /\ FirstDecl(SourceOf(Errors[a])) < FirstDecl(SourceOf(Errors[b]))) => a < b
            /\ (/\ ~IsSourceError(Errors[a]) /\ ~IsSourceError(Errors[b])
                /\ SourceOf(Errors[a]) = SourceOf(Errors[b])
                /\ Errors[a].of < Errors[b].of) => a < b

\* The install error of the second group precedes the lock error of a plugin
\* of the first group.
C17_Witness ==
    /\ Done
    /\ Len(Errors) = 2
    /\ IsSourceError(Errors[1]) /\ ~IsSourceError(Errors[2])
    /\ FirstDecl(SourceOf(Errors[2])) < FirstDecl(SourceOf(Errors[1]))

(* C18: plugin::lock is called for a source only when its install has
   succeeded, for the plugins of its group one after the other in declaration
   order, each once and each against the handle of that source; when lock has
   returned it was called for every plugin of an installed source and for no
   plugin of a source whose install failed. *)
C18_LockerAfterInstall ==
    \A s \in Sources :
        /\ lockerCalls[s] # <<>> => installOutcome[s] = "ok"
        /\ Len(lockerCalls[s]) <= Cardinality(PluginsOf(s))
        /\ \A k \in 1..Len(lockerCalls[s]) :
              /\ lockerCalls[s][k].name = Input[NthPlugin(s, k)].name
              /\ lockerCalls[s][k].source = LockedSource(s)
        /\ Done =>
              /\ installOutcome[s] = "ok" => Len(lockerCalls[s]) = Cardinality(PluginsOf(s))
              /\ installOutcome[s] = "failed" => lockerCalls[s] = <<>>

\* Lock has returned: the locker was called twice for an installed source
\* with two plugins between which another plugin is declared, and never for
\* the other source, whose install failed.
C18_Witness ==
    /\ Done
    /\ \E s \in Sources :
        /\ installOutcome[s] = "ok" /\ Len(lockerCalls[s]) = 2
        /\ PluginsOf(s) = {1, 3}
    /\ \E s \in Sources : installOutcome[s] = "failed" /\ lockerCalls[s] = <<>> /\ PluginsOf(s) # {}

----------------------------------------------------------------------------
(* What the verify claims speak of *)

Answer == verified[Len(verified)]

\* The directory the claim resolves for an external locked plugin.
ResolvedDir(p) == IF Len(p.plugin_dir) = 1 THEN p.plugin_dir[1] ELSE p.source_dir

ExternalLocked == {j \in 1..Len(Out) : Out[j].kind = "external"}

(* C7: an answer of verify is true iff the lock's settings equal the current
   settings and, for every external locked plugin, its resolved directory
   and every file of its file list exist; inline plugins play no part. *)
C7_VerifyIff ==
    verified # <<>> =>
        (Answer <=>
            /\ Returned.settings = ctx
            /\ \A j \in ExternalLocked :
                /\ ResolvedDir(Out[j]) \in fs
                /\ \A k \in 1..Len(Out[j].files) : Out[j].files[k] \in fs)

\* verify answered false with the settings unchanged, for a lock with an
\* inline plugin and an external plugin whose plugin subdirectory exists and
\* one of whose files was deleted.
C7_Witness ==
    /\ verified # <<>> /\ ~Answer
    /\ Returned.settings = ctx
    /\ \E j \in 1..Len(Out) : Out[j].kind = "inline"
    /\ \E j \in ExternalLocked :
        /\ Out[j].plugin_dir # None
        /\ ResolvedDir(Out[j]) \in fs
        /\ \E k \in 1..Len(Out[j].files) : Out[j].files[k] \notin fs

(* C8: a step that adds an answer of verify leaves the LockedConfig, the
   context and the disk as they were, and the answer it adds is the one the
   call before it gave. *)
C8_VerifyReadOnly ==
    [][Len(verified') > Len(verified) =>
          /\ locked' = locked /\ ctx' = ctx /\ fs' = fs
          /\ verified # <<>> => verified'[Len(verified')] = Answer]_vars

\* verify was called twice in a row on a lock it rejects for a missing path.
C8_Witness ==
    /\ Len(verified) = 2 /\ ~verified[1] /\ ~verified[2]
    /\ Returned.settings = ctx
    /\ fs # VerifyPaths

----------------------------------------------------------------------------
(* What the template claims speak of *)

Defaults == default_templates(config.shell)

UserNames == Range(Keys(config.templates))

\* The user template declared under a name.
UserTemplateOf(name) ==
    (CHOOSE i \in 1..Len(config.templates) : config.templates[i].name = name)

\* The user-declared names that are not names of defaults, in declaration order.
NewNames == SelectSeq(Keys(config.templates), LAMBDA n : n \notin Range(Keys(Defaults)))

(* C9: once merged, the template names are the defaults' names in their
   order followed by the new user names in declaration order; a name the
   user declares has the user's template, every other the default's; the
   LockedConfig returned holds this map. *)
C9_TemplateMerge ==
    /\ pc # "start" =>
        /\ Keys(templates) = Keys(Defaults) \o NewNames
        /\ \A i \in 1..Len(templates) :
              templates[i].template =
                 IF templates[i].name \in UserNames
                 THEN config.templates[UserTemplateOf(templates[i].name)].template
                 ELSE Defaults[i].template
    /\ Done => Returned.templates = templates

\* Zsh, a new name declared before an override of "source": "source" keeps
\* position 4 with the user's template and the new name is at position 5.
C9_Witness ==
    /\ Done
    /\ config.shell = "Zsh"
    /\ Len(config.templates) = 2
    /\ config.templates[2].name = "source"
    /\ config.templates[1].name = "custom"
    /\ Returned.templates[4] = config.templates[2]
    /\ Returned.templates[4] # Defaults[4]
    /\ Returned.templates[5] = config.templates[1]

(* C10 as stated: with zero plugins lock returns empty plugins, empty errors,
   the context's settings and the shell's unmodified default templates, and
   no install is started. *)
C10_EmptyConfig_AsStated ==
    (Done /\ Input = <<>>) =>
        /\ Out = <<>> /\ Errors = <<>>
        /\ Returned.settings = ctx
        /\ Returned.templates = Defaults
        /\ \A s \in Sources : installs[s] = 0

(* C10 as amended: with zero plugins lock returns empty plugins, empty
   errors and the context's settings, and no install is started; the
   templates are the shell's unmodified defaults when the config declares no
   user template. *)
C10_EmptyConfig ==
    (Done /\ Input = <<>>) =>
        /\ locked[1].ok
        /\ Out = <<>> /\ Errors = <<>>
        /\ Returned.settings = ctx
        /\ config.templates = <<>> => Returned.templates = Defaults
        /\ \A s \in Sources : installs[s] = 0 /\ installOutcome[s] = "none"
        /\ tasks = <<>>

\* Lock has returned for the empty Zsh config of the test lock_config_empty.
C10_Witness ==
    /\ Done
    /\ Input = <<>>
    /\ config.templates = <<>>
    /\ config.shell = "Zsh"
    /\ Len(Returned.templates) = 4

----------------------------------------------------------------------------
(* The stale-state cleaner: LockedConfig::clean.  A path is the sequence of
   its components, the first one the managed root it lies under. *)

ManagedRoots == {<<"clone_dir">>, <<"download_dir">>}

\* The directories an install leaves under the managed roots.
EntryPaths ==
    {<<"clone_dir", "github.com", "rossmacarthur", "sheldon-test">>,
     <<"clone_dir", "github.com", "rossmacarthur", "another-dir">>,
     <<"clone_dir", "github.com", "other", "repo">>,
     <<"download_dir", "example.com", "plugin">>}

IsPrefix(a, b) == Len(a) <= Len(b) /\ SubSeq(b, 1, Len(a)) = a

Parent(p) == SubSeq(p, 1, Len(p) - 1)

Prefixes(p) == {SubSeq(p, 1, k) : k \in 1..Len(p)}

FileOf(entry) == Append(entry, "file")

\* The disk with the given entries installed, one file in each.
Tree(entries) ==
    ManagedRoots \cup UNION {Prefixes(e) \cup {FileOf(e)} : e \in entries}

Children(d, disk) == {p \in disk : Len(p) = Len(d) + 1 /\ IsPrefix(d, p)}

\* Mutant: only the first external plugin is looked at.
Referenced_first(lockedPlugins) ==
    LET ext == SelectSeq(lockedPlugins, LAMBDA p : p.kind = "external")
    IN  IF ext = <<>> THEN {} ELSE {ext[1].source_dir}

\* The installed-source directories referenced by an external locked plugin.
Referenced(lockedPlugins) ==
    {lockedPlugins[j].source_dir :
        j \in {k \in 1..Len(lockedPlugins) : lockedPlugins[k].kind = "external"}}

\* The previously installed entries found by the scan of the managed roots.
InstalledEntries(disk) == {e \in EntryPaths : e \in disk /\ \E r \in ManagedRoots : IsPrefix(r, e)}

\* remove_dir_all
RemoveAll(disk, e) == {p \in disk : ~IsPrefix(e, p)}

\* Mutant: only the parent of the removed entry is pruned.
Prune_once(disk, d, failAt) ==
    IF d \in ManagedRoots \/ Children(d, disk) # {} THEN [disk |-> disk, failed |-> {}]
    ELSE IF d = failAt THEN [disk |-> disk, failed |-> {d}]
    ELSE [disk |-> disk \ {d}, failed |-> {}]

\* Prune upward from d while the directory is empty and below the managed
\* root; the removal of `failAt` is refused.
RECURSIVE Prune(_, _, _)
Prune(disk, d, failAt) ==
    IF d \in ManagedRoots \/ Children(d, disk) # {} THEN [disk |-> disk, failed |-> {}]
    ELSE IF d = failAt THEN [disk |-> disk, failed |-> {d}]
    ELSE Prune(disk \ {d}, Parent(d), failAt)

Warning(path) == [context |-> "failed to remove", of |-> path]

\* warnings.push(...) for every refused removal
PushWarnings(ws, failed) ==
    IF failed = {} THEN ws ELSE Append(ws, Warning(CHOOSE p \in failed : TRUE))

\* clean is called: the referenced set is computed and the managed roots are
\* scanned for the entries that are not in it.
CleanStart ==
    /\ pc \in {"done", "loaded"}
    /\ cleanTodo' = InstalledEntries(fs) \ Referenced(locked[1].val.plugins)
    /\ disk0' = fs
    /\ pc' = "cleaning"
    /\ UNCHANGED <<ctx, config, templates, inlines, map, tasks, installs, installOutcome,
                   lockOutcome, finished, locked, fs, verified, errorsVec, pluginsVec,
                   lockerCalls, lazyTemplates, history, warnings, fsFailures, lockFile>>

\* Mutant: a refused removal ends the clean.
CleanEntry_abort(e) ==
    /\ pc = "cleaning"
    /\ e \in cleanTodo
    /\ \E ok \in BOOLEAN, failAt \in Prefixes(Parent(e)) \cup {<<>>} :
         LET r == IF ok THEN Prune(RemoveAll(fs, e), Parent(e), failAt)
                        ELSE [disk |-> fs, failed |-> {e}]
         IN  /\ fs' = r.disk
             /\ fsFailures' = fsFailures \cup r.failed
             /\ warnings' = PushWarnings(warnings, r.failed)
             /\ cleanTodo' = IF r.failed # {} THEN {} ELSE cleanTodo \ {e}
    /\ UNCHANGED <<ctx, lockVars, locked, verified, history, disk0, lockFile>>

\* One unreferenced entry is removed and its ancestors pruned; a refused
\* removal becomes a warning and the scan goes on.
CleanEntry(e) ==
    /\ pc = "cleaning"
    /\ e \in cleanTodo
    /\ \E ok \in BOOLEAN, failAt \in Prefixes(Parent(e)) \cup {<<>>} :
         LET r == IF ok THEN Prune(RemoveAll(fs, e), Parent(e), failAt)
                        ELSE [disk |-> fs, failed |-> {e}]
         IN  /\ fs' = r.disk
             /\ fsFailures' = fsFailures \cup r.failed
             /\ warnings' = PushWarnings(warnings, r.failed)
             /\ cleanTodo' = cleanTodo \ {e}
    /\ UNCHANGED <<ctx, lockVars, locked, verified, history, disk0, lockFile>>

\* Every entry was processed: clean returns.
CleanReturn ==
    /\ pc = "cleaning"
    /\ cleanTodo = {}
    /\ pc' = "cleaned"
    /\ UNCHANGED <<ctx, config, templates, inlines, map, tasks, installs, installOutcome,
                   lockOutcome, finished, locked, fs, verified, errorsVec, pluginsVec,
                   lockerCalls, lazyTemplates, envVars>>

\* The locked plugins of a fresh lock over the installed entries.
CleanPluginChoices(installed) ==
    {[kind |-> "inline", name |-> 1]}
    \cup {[kind |-> "external", name |-> 1, source_dir |-> e,
           plugin_dir |-> None, files |-> <<FileOf(e)>>] : e \in installed}

\* A fresh LockedConfig, and on disk the entries it references together with
\* entries of earlier locks that it may not reference.
InitClean ==
    /\ ctx \in {TestingSettings(r) : r \in Roots}
    /\ config = [shell |-> "Zsh", templates |-> <<>>, plugins |-> <<>>]
    /\ pc = "loaded"
    /\ templates = <<>>
    /\ inlines = <<>>
    /\ map = <<>>
    /\ tasks = <<>>
    /\ installs = [s \in Sources |-> 0]
    /\ installOutcome = [s \in Sources |-> "none"]
    /\ lockOutcome = <<>>
    /\ finished = <<>>
    /\ \E installed \in SUBSET EntryPaths :
         /\ fs = Tree(installed)
         /\ \E lockedPlugins \in SeqsUpTo(CleanPluginChoices(installed), MaxLockedPlugins) :
              locked = Some(Ok(LockedConfig(ctx, default_templates("Zsh"), <<>>, lockedPlugins)))
    /\ verified = <<>>
    /\ InitRest

NextClean ==
    \/ CleanStart
    \/ \E e \in EntryPaths : CleanEntry(e)
    \/ CleanReturn

SpecClean == InitClean /\ [][NextClean]_vars

----------------------------------------------------------------------------
(* What the clean claims speak of *)

Cleaned == pc = "cleaned"

\* The installed directories some external locked plugin lives in.
StillReferenced ==
    {e \in EntryPaths : \E j \in 1..Len(locked[1].val.plugins) :
        /\ locked[1].val.plugins[j].kind = "external"
        /\ locked[1].val.plugins[j].source_dir = e}

\* The installed directories clean found on disk.
Found == {e \in EntryPaths : e \in disk0}

\* Nothing of entry e is left on disk.
Gone(e) == \A p \in fs : ~IsPrefix(e, p)

\* Entry e is on disk with everything it held.
Untouched(e) == \A p \in disk0 : IsPrefix(e, p) => p \in fs

\* The directories between a managed root and an entry.
Intermediate(disk) == {d \in disk : d \notin ManagedRoots /\ \E e \in EntryPaths : IsPrefix(d, Parent(e))}

(* C11: when clean has returned, every installed directory that no external
   locked plugin references is gone with all it held, unless its removal was
   refused (all of them when no removal was refused), and every installed
   directory that a locked plugin references is on disk with all its files;
   nothing appears on disk. *)
C11_CleanRemovesUnreferenced ==
    Cleaned =>
        /\ \A e \in Found :
            /\ e \notin StillReferenced => Gone(e) \/ e \in fsFailures
            /\ e \in StillReferenced => Untouched(e)
        /\ fsFailures = {} => \A e \in Found \ StillReferenced : Gone(e)
        /\ fs \subseteq disk0

\* The case of the test locked_config_clean: sheldon-test is referenced and
\* kept with its file, another-dir beside it is not and is gone.
C11_Witness ==
    /\ Cleaned
    /\ fsFailures = {}
    /\ <<"clone_dir", "github.com", "rossmacarthur", "sheldon-test">> \in StillReferenced
    /\ <<"clone_dir", "github.com", "rossmacarthur", "sheldon-test", "file">> \in fs
    /\ <<"clone_dir", "github.com", "rossmacarthur", "another-dir">> \in disk0
    /\ <<"clone_dir", "github.com", "rossmacarthur", "another-dir">> \notin fs
    /\ Len(locked[1].val.plugins) = 2

(* C12: the managed roots are never removed and the disk stays closed under
   parents; when clean has returned, every directory between a managed root
   and an entry that is still on disk is non-empty, unless its removal was
   refused, and every ancestor of a referenced directory is on disk. *)
C12_PruneEmptyAncestors ==
    /\ ManagedRoots \subseteq fs
    /\ \A p \in fs : Prefixes(p) \subseteq fs
    /\ Cleaned =>
        /\ \A d \in Intermediate(fs) : Children(d, fs) # {} \/ d \in fsFailures
        /\ \A e \in Found \cap StillReferenced : Prefixes(e) \subseteq fs

\* Two levels were pruned under the clone directory (owner and host) and one
\* under the download directory, and the roots are on disk.
C12_Witness ==
    /\ Cleaned
    /\ fsFailures = {}
    /\ <<"clone_dir", "github.com", "other">> \in disk0
    /\ <<"clone_dir", "github.com">> \notin fs
    /\ <<"download_dir", "example.com">> \in disk0
    /\ fs = ManagedRoots

(* C13: every refused removal is a warning and every warning a refused
   removal, one each; clean returns only when every unreferenced entry it
   found was processed, so each is gone or its removal was refused; with no
   refused removal the warnings are empty. *)
C13_FailuresAreWarnings ==
    /\ {warnings[k].of : k \in 1..Len(warnings)} = fsFailures
    /\ Len(warnings) = Cardinality(fsFailures)
    /\ fsFailures = {} => warnings = <<>>
    /\ Cleaned =>
        /\ cleanTodo = {}
        /\ \A e \in Found \ StillReferenced :
              \/ e \in fsFailures /\ e \in fs
              \/ Gone(e)

\* The removal of one entry and the pruning after another were refused, and
\* a third entry was removed.
C13_Witness ==
    /\ Cleaned
    /\ Len(warnings) = 2
    /\ \E e \in Found : e \in fsFailures
    /\ \E d \in fsFailures : d \notin EntryPaths
    /\ \E e \in Found \ StillReferenced : Gone(e) /\ e \notin fsFailures

----------------------------------------------------------------------------
(* Lock persistence: from_path and to_path.  A lock file is the sequence of
   its lines and a line the sequence of its tokens, the empty line <<>>. *)

\* The top-level keys in the order of the file.
SettingsOrder ==
    <<"version", "home", "config_dir", "data_dir",
      "config_file", "lock_file", "clone_dir", "download_dir">>

KV(key, value) == <<key, "=", value>>

Digits == <<"1", "2", "3", "4", "5", "6", "7", "8", "9">>

NameStr(n) == "plugin-" \o Digits[n]

ParseName(s) == CHOOSE n \in 1..Len(Digits) : NameStr(n) = s

PathStr(p) == "/source-" \o Digits[p.source] \o (IF p.rel = "" THEN "" ELSE "/" \o p.rel)

ParsePath(s) ==
    CHOOSE p \in {Path(n, rel) : n \in 1..Len(Digits), rel \in {"", "sub", "file", "sub/file"}} :
        PathStr(p) = s

BoolStr(b) == IF b THEN "true" ELSE "false"

TemplateNames == {"PATH", "path", "fpath", "source", "custom", "extra"}

TemplateHeader(name) == "[templates." \o name \o "]"

ParseHeader(h) == CHOOSE n \in TemplateNames : TemplateHeader(n) = h

SettingsLines(settings) ==
    [i \in 1..Len(SettingsOrder) |-> KV(SettingsOrder[i], settings[SettingsOrder[i]])]

\* One [[plugins]] record, tagged by kind; an absent plugin_dir has no line.
PluginLines(p) ==
    << <<>>, <<"[[plugins]]">>, KV("kind", p.kind), KV("name", NameStr(p.name)) >>
    \o (IF p.kind = "external"
        THEN << KV("source_dir", PathStr(p.source_dir)) >>
             \o (IF p.plugin_dir = None THEN <<>>
                 ELSE << KV("plugin_dir", PathStr(p.plugin_dir[1])) >>)
             \o << <<"files", "=">> \o SeqMap(PathStr, p.files) >>
        ELSE <<>>)

TemplateLines(e) ==
    << <<>>, <<TemplateHeader(e.name)>>,
       KV("value", e.template.value), KV("each", BoolStr(e.template.each)) >>

\* Mutant: an empty template map writes no section.
TemplatesLines_omitEmpty(tmpls) ==
    Flatten(SeqMap(TemplateLines, tmpls))

\* The templates table: its header alone when the map is empty.
TemplatesLines(tmpls) ==
    IF tmpls = <<>> THEN << <<>>, <<"[templates]">> >>
    ELSE Flatten(SeqMap(TemplateLines, tmpls))

\* The text to_path writes: settings, plugins, templates; the errors of the
\* lock run are not part of the file.
to_toml(self) ==
    SettingsLines(self.settings)
    \o (IF self.plugins = <<>> THEN << KV("plugins", "[]") >>
        ELSE Flatten(SeqMap(PluginLines, self.plugins)))
    \o TemplatesLines(self.templates)

\* The indices of the table headers of a file, ascending.
HeaderIdx(doc) == SelectSeq([i \in 1..Len(doc) |-> i], LAMBDA i : Len(doc[i]) = 1)

\* The key-value lines of the table whose header is line i (of the top level
\* for i = 0).
Body(doc, i) ==
    LET later == SelectSeq(HeaderIdx(doc), LAMBDA h : h > i)
        last == IF later = <<>> THEN Len(doc) ELSE later[1] - 1
    IN  SelectSeq(SubSeq(doc, i + 1, last), LAMBDA l : Len(l) >= 2 /\ l[2] = "=")

HasKey(body, key) == \E k \in 1..Len(body) : body[k][1] = key

Lookup(body, key) == body[CHOOSE k \in 1..Len(body) : body[k][1] = key]

ParsePlugin(body) ==
    IF Lookup(body, "kind")[3] = "inline"
    THEN [kind |-> "inline", name |-> ParseName(Lookup(body, "name")[3])]
    ELSE [kind |-> "external", name |-> ParseName(Lookup(body, "name")[3]),
          source_dir |-> ParsePath(Lookup(body, "source_dir")[3]),
          plugin_dir |-> IF HasKey(body, "plugin_dir")
                         THEN Some(ParsePath(Lookup(body, "plugin_dir")[3])) ELSE None,
          files |-> LET l == Lookup(body, "files")
                    IN  [k \in 1..(Len(l) - 2) |-> ParsePath(l[k + 2])]]

ParseTemplate(header, body) ==
    Entry(ParseHeader(header),
          Template(Lookup(body, "value")[3], Lookup(body, "each")[3] = "true"))

\* The file has the shape of a lock file.
Deserializable(doc) ==
    /\ \A f \in SettingsFields : HasKey(Body(doc, 0), f)
    /\ HasKey(Body(doc, 0), "plugins") \/ \E i \in 1..Len(doc) : doc[i] = <<"[[plugins]]">>

\* toml::from_str::<LockedConfig>
from_toml(doc) ==
    LET heads == HeaderIdx(doc)
        plugs == SelectSeq(heads, LAMBDA i : doc[i] = <<"[[plugins]]">>)
        tmpls == SelectSeq(heads, LAMBDA i : doc[i] \notin {<<"[[plugins]]">>, <<"[templates]">>})
    IN  LockedConfig([f \in SettingsFields |-> Lookup(Body(doc, 0), f)[3]],
                     [k \in 1..Len(tmpls) |-> ParseTemplate(doc[tmpls[k]][1], Body(doc, tmpls[k]))],
                     <<>>,
                     [k \in 1..Len(plugs) |-> ParsePlugin(Body(doc, plugs[k]))])

\* from_path: the file is read and deserialized, either of which may fail.
from_path(file) ==
    IF file = None THEN Err("failed to read locked config")
    ELSE IF ~Deserializable(file[1]) THEN Err("failed to deserialize locked config")
    ELSE Ok(from_toml(file[1]))

\* The lock file of the test locked_config_to_and_from_path.
TestContent ==
    << KV("version", "<version>"), KV("home", "<home>"), KV("config_dir", "<config>"),
       KV("data_dir", "<data>"), KV("config_file", "<config>/plugins.toml"),
       KV("lock_file", "<data>/plugins.lock"), KV("clone_dir", "<data>/repos"),
       KV("download_dir", "<data>/downloads"), KV("plugins", "[]"),
       <<>>, <<"[templates]">> >>

\* locked.to_path(path)
ToPath ==
    /\ pc \in {"done", "loaded"}
    /\ Len(history) < MaxPersistOps
    /\ locked # None /\ locked[1].ok
    /\ lockFile' = Some(to_toml(locked[1].val))
    /\ history' = Append(history, [op |-> "to_path", result |-> locked[1], file |-> lockFile'])
    /\ UNCHANGED <<ctx, lockVars, locked, fs, verified, cleanTodo, warnings, fsFailures, disk0>>

\* locked = from_path(path)
FromPath ==
    /\ pc \in {"done", "loaded", "unloaded"}
    /\ Len(history) < MaxPersistOps
    /\ locked' = Some(from_path(lockFile))
    /\ pc' = IF locked'[1].ok THEN "loaded" ELSE "unloaded"
    /\ history' = Append(history, [op |-> "from_path", result |-> locked'[1], file |-> lockFile])
    /\ UNCHANGED <<ctx, config, templates, inlines, map, tasks, installs, installOutcome,
                   lockOutcome, finished, fs, verified, errorsVec, pluginsVec, lockerCalls,
                   lazyTemplates, cleanTodo, warnings, fsFailures, disk0, lockFile>>

\* Either a LockedConfig in memory (of a lock run, so possibly with errors)
\* and no lock file, or a lock file (the test's, or one that is no lock
\* file) and nothing in memory.
InitPersist ==
    /\ ctx = TestingSettings("/tmp/a")
    /\ config = [shell |-> "Zsh", templates |-> <<>>, plugins |-> <<>>]
    /\ templates = <<>>
    /\ inlines = <<>>
    /\ map = <<>>
    /\ tasks = <<>>
    /\ installs = [s \in Sources |-> 0]
    /\ installOutcome = [s \in Sources |-> "none"]
    /\ lockOutcome = <<>>
    /\ finished = <<>>
    /\ fs = {}
    /\ verified = <<>>
    /\ errorsVec = <<>>
    /\ pluginsVec = <<>>
    /\ lockerCalls = [s \in Sources |-> <<>>]
    /\ lazyTemplates = [sh \in Shells |-> None]
    /\ history = <<>>
    /\ cleanTodo = {}
    /\ warnings = <<>>
    /\ fsFailures = {}
    /\ disk0 = {}
    /\ \/ /\ pc = "done"
          /\ lockFile = None
          /\ \E tmpls \in {<<>>, default_templates("Bash"),
                           MergeTemplates("Zsh", <<UserTemplate("custom", TRUE)>>)},
                errors \in {<<>>, <<SourceError(1)>>, <<PluginError(1)>>},
                plugins \in SeqsUpTo(LockedPluginChoices, MaxLockedPlugins) :
               locked = Some(Ok(LockedConfig(ctx, tmpls, errors, plugins)))
       \/ /\ pc = "unloaded"
          /\ locked = None
          /\ lockFile \in {Some(TestContent), Some(SubSeq(TestContent, 2, Len(TestContent)))}

NextPersist == ToPath \/ FromPath

SpecPersist == InitPersist /\ [][NextPersist]_vars

----------------------------------------------------------------------------
(* What the persistence claim speaks of *)

\* The k-th call was to_path, the next one from_path.
WrittenThenRead(k) ==
    /\ k + 1 <= Len(history)
    /\ history[k].op = "to_path"
    /\ history[k + 1].op = "from_path"

\* The k-th call was a from_path that succeeded, the next one to_path.
ReadThenWritten(k) ==
    /\ k + 1 <= Len(history)
    /\ history[k].op = "from_path"
    /\ history[k].result.ok
    /\ history[k + 1].op = "to_path"

\* Calls j and k were to_path of the same value.
WrittenTwice(j, k) ==
    /\ j < k
    /\ history[j].op = "to_path"
    /\ history[k].op = "to_path"
    /\ history[j].result = history[k].result

\* C14 as the claim states it: from_path(to_path(L)) equals L for every
\* LockedConfig, the errors of L included.
C14_RoundTrip_AsStated ==
    \A k \in 1..Len(history) :
        WrittenThenRead(k) =>
            history[k + 1].result.ok /\ history[k + 1].result.val = history[k].result.val

(* C14: from_path(to_path(L)) succeeds and equals L in settings, templates
   and plugins, with no errors (so it equals L when L has no errors);
   to_path of the same value twice writes the same file; to_path of a value
   just read by from_path writes the file that was read, with its [templates]
   header when there are no templates. *)
C14_RoundTrip ==
    /\ \A k \in 1..Len(history) :
        WrittenThenRead(k) =>
            /\ history[k + 1].result.ok
            /\ history[k + 1].result.val = [history[k].result.val EXCEPT !.errors = <<>>]
    /\ \A j, k \in 1..Len(history) : WrittenTwice(j, k) => history[j].file = history[k].file
    /\ \A k \in 1..Len(history) : ReadThenWritten(k) => history[k + 1].file = history[k].file

\* The test's file, with its empty [templates] section, was read and written
\* back, and read again.
C14_Witness ==
    /\ Len(history) = 3
    /\ ReadThenWritten(1)
    /\ WrittenThenRead(2)
    /\ history[1].file = Some(TestContent)
    /\ history[1].result.val.templates = <<>>
    /\ <<"[templates]">> \in Range(history[2].file[1])

----------------------------------------------------------------------------
(* Several lock runs in one process: the statics of default_templates
   outlive a run. *)

\* The configs of the runs: either shell, no template or overrides of
\* defaults and new names, no source to install.
RunConfigs ==
    [shell : Shells,
     templates : {<<>>, <<UserTemplate("source", FALSE)>>, <<UserTemplate("custom", TRUE)>>,
                  <<UserTemplate("PATH", TRUE), UserTemplate("extra", FALSE)>>},
     plugins : {MakePlugins(<<>>), MakePlugins(<<0>>)}]

\* config is called again in the same process, after the run before it
\* returned: the locals are new, the statics are the process's.
NewRun(cfg) ==
    /\ pc = "done"
    /\ Len(history) < MaxRuns
    /\ history' = Append(history, [shell |-> config.shell, declared |-> config.templates,
                                   templates |-> locked[1].val.templates])
    /\ config' = cfg
    /\ pc' = "start"
    /\ templates' = <<>>
    /\ inlines' = <<>>
    /\ map' = <<>>
    /\ tasks' = <<>>
    /\ installs' = [s \in Sources |-> 0]
    /\ installOutcome' = [s \in Sources |-> "none"]
    /\ lockOutcome' = [i \in 0..(Len(cfg.plugins) - 1) |-> "none"]
    /\ finished' = <<>>
    /\ locked' = None
    /\ errorsVec' = <<>>
    /\ pluginsVec' = <<>>
    /\ lockerCalls' = [s \in Sources |-> <<>>]
    /\ UNCHANGED <<ctx, fs, verified, lazyTemplates, cleanTodo, warnings, fsFailures, disk0,
                   lockFile>>

InitRuns ==
    /\ ctx = TestingSettings("/tmp/a")
    /\ config \in RunConfigs
    /\ InitLockState

NextRuns ==
    \/ Start
    \/ \E cfg \in RunConfigs : NewRun(cfg)

SpecRuns == InitRuns /\ [][NextRuns]_vars

----------------------------------------------------------------------------
(* What the claim about the default tables speaks of *)

\* The template a list of entries holds under a name.
TemplateOf(entries, name) ==
    entries[CHOOSE i \in 1..Len(entries) : entries[i].name = name].template

\* The templates of a run are the shell's defaults but for the names the
\* run itself declares.
OwnOverridesOnly(shell, declared, tmpls) ==
    /\ Range(Keys(tmpls)) = Range(Keys(default_templates(shell))) \cup Range(Keys(declared))
    /\ \A i \in 1..Len(tmpls) :
        tmpls[i].template =
            IF tmpls[i].name \in Range(Keys(declared))
            THEN TemplateOf(declared, tmpls[i].name)
            ELSE TemplateOf(default_templates(shell), tmpls[i].name)

(* C19: in every state of every sequence of lock runs, the table of each
   shell is either not built yet or the table as first built, so that
   default_templates(shell) returns what it returned before the first run;
   and the templates of every run are the defaults but for the names that
   run declares itself, whatever the runs before it declared. *)
C19_DefaultsNeverMutated ==
    /\ \A sh \in Shells :
        /\ lazyTemplates[sh] \in {None, Some(default_templates(sh))}
        /\ Forced(sh) = default_templates(sh)
    /\ \A k \in 1..Len(history) :
        OwnOverridesOnly(history[k].shell, history[k].declared, history[k].templates)
    /\ Done => OwnOverridesOnly(config.shell, config.templates, Returned.templates)

\* A run that overrode `source` was followed, for the same shell, by a run
\* that declares no template and has the unmodified defaults.
C19_Witness ==
    /\ Done
    /\ Len(history) >= 1
    /\ history[Len(history)].shell = config.shell
    /\ history[Len(history)].declared = <<UserTemplate("source", FALSE)>>
    /\ TemplateOf(history[Len(history)].templates, "source") = UserTemplate("source", FALSE).template
    /\ config.templates = <<>>
    /\ Returned.templates = default_templates(config.shell)

----------------------------------------------------------------------------
(* verify called on what lock has just returned, with the context of the
   lock and the disk as the lock left it. *)

\* The disk at the time of the lock: everything the sources hold, or a
\* source that lacks its file or is not there at all.
LockDisks ==
    {AllPaths \ gone : gone \in {{}, {Path(1, "file")}, {p \in AllPaths : p.source = 1}}}

InitLockVerify ==
    /\ ctx \in {TestingSettings(r) : r \in Roots}
    /\ config \in [shell : {"Zsh"}, templates : {<<>>}, plugins : PluginLists]
    /\ pc = "start"
    /\ templates = <<>>
    /\ inlines = <<>>
    /\ map = <<>>
    /\ tasks = <<>>
    /\ installs = [s \in Sources |-> 0]
    /\ installOutcome = [s \in Sources |-> "none"]
    /\ lockOutcome = [i \in 0..(Len(config.plugins) - 1) |-> "none"]
    /\ finished = <<>>
    /\ locked = None
    /\ fs \in LockDisks
    /\ verified = <<>>
    /\ InitRest

NextLockVerify ==
    \/ Next
    \/ Verify

SpecLockVerify == InitLockVerify /\ [][NextLockVerify]_vars

(* C20: what lock returns records the settings of its context; an answer of
   verify, called with that context on what lock returned and the disk
   unchanged, is true iff the directory and every file recorded for every
   locked external plugin exist (the settings never make it false), and it
   is true for a config of inline plugins only. *)
C20_VerifyAfterLock ==
    /\ Done => Returned.settings = ctx
    /\ verified # <<>> =>
        /\ verified[Len(verified)] <=>
              \A j \in ExternalLocked :
                  /\ ResolvedDir(Out[j]) \in fs
                  /\ \A k \in 1..Len(Out[j].files) : Out[j].files[k] \in fs
        /\ (\A i \in 1..Len(Input) : ~IsExternal(i)) => verified[Len(verified)]

\* verify answered true after a lock that returned an inline plugin and a
\* locked external plugin of either source, everything recorded being on
\* disk.
C20_Witness ==
    /\ verified # <<>> /\ verified[Len(verified)]
    /\ fs = AllPaths
    /\ \E j \in 1..Len(Out) : Out[j].kind = "inline"
    /\ Cardinality(ExternalLocked) = 2

====
